---------------------------- MODULE Spec2Model ----------------------------
(***************************************************************************)
(* SpinCameraControls (src/src/SpinCameraControls.ts): a first-person      *)
(* free-look controller for a THREE.PerspectiveCamera.  Pointer, touch and *)
(* wheel events of a DOM element are turned into yaw/pitch rotation and    *)
(* field-of-view zoom; `start`, `change` and `end` are dispatched to       *)
(* subscribers.                                                            *)
(*                                                                         *)
(* Numbers.  An angle is an integer in units of pi/8.  An even code a      *)
(* stands for the angle a*pi/8 exactly, a multiple of pi/4 (the lattice);  *)
(* an odd code a stands for every angle strictly between (a-1)*pi/8 and    *)
(* (a+1)*pi/8, two neighbours of the lattice.  So HalfPi = 4 and Pi = 8.   *)
(* rotateSensitivity is counted in units of pi/8 per pixel and is even: a  *)
(* move turns by steps of the lattice, which take an angle of the lattice  *)
(* to one of the lattice and an angle between two neighbours to an angle   *)
(* between two neighbours.  A float that differs from an angle of the      *)
(* lattice by rounding only (less than 1e-9) has the code of that angle.   *)
(* A vector component v (|v| <= 1) is stored as the integer                *)
(* sgn(v)*100*v^2:                                                         *)
(*      1 -> 100    sqrt(1/2) -> 50    1/2 -> 25    0 -> 0                 *)
(* The sine and the cosine of an odd code are those of one angle of its    *)
(* class, (a-1)*pi/8 + atan(1/2), whose squares are rational (1/5 and 4/5, *)
(* and 9/10 and 1/10 a step of pi/4 further), so that the arithmetic on    *)
(* components is exact for every code; Math.atan2 and Math.asin take a     *)
(* vector back to the codes of its angles by comparing components.  A      *)
(* direction off the lattice thus has the code of the direction of its     *)
(* angles' codes.                                                          *)
(* Two kinds of float have codes of their own.  A zero keeps its sign: 0   *)
(* codes +0 and NegZero codes -0, which Math.atan2 tells apart.  At the    *)
(* poles IEEE arithmetic leaves residues of Math.cos(Math.PI/2) = 6.1e-17  *)
(* in the horizontal components: a residue is coded sgn*(Tiny + c), c the  *)
(* code of its size relative to the other residue; it is smaller than      *)
(* every other component and still a direction for Math.atan2.  See        *)
(* GetWorldDirection.                                                      *)
(* The field of view is in degrees; zoomSensitivity is in degrees per unit *)
(* of WheelEvent.deltaY.                                                   *)
(***************************************************************************)
EXTENDS Integers, Sequences, FiniteSets

VARIABLES
    \* --- SpinCameraControls fields
    yaw,                    \* _yaw
    pitch,                  \* _pitch
    isDragging,             \* _isDragging
    previousMousePosition,  \* _previousMousePosition : [x, y]
    rotateSensitivity,
    enableZoom,
    zoomSensitivity,
    mouseButtons,           \* [LEFT, RIGHT]
    touches,                \* [ONE, TWO]
    domElement,             \* Controls.domElement : Null or the element
    \* --- the camera (this.camera)
    camera,                 \* [direction, fov, position]
    \* --- the input surface (the DOM element)
    listeners,              \* event types the controller is registered for
    touchAction,            \* element.style.touchAction
    fingers,                \* touch points currently on the surface
    \* --- what an observer of the controller sees
    last,                   \* the event handled (or call made) last: [type, arg]
    calls,                  \* the calls that handler made, in order
    recording,              \* a subscriber that keeps every notification is registered
    hist,                   \* while recording: every event handled, in order
    log,                    \* while recording: every notification received, in order
    pressed                 \* while recording: [yaw, x], the yaw and the pointer's x
                            \* right after the qualifying mouse press the record
                            \* began with, kept as long as only mouse moves follow

vars == <<yaw, pitch, isDragging, previousMousePosition, rotateSensitivity,
          enableZoom, zoomSensitivity, mouseButtons, touches, domElement,
          camera, listeners, touchAction, fingers, last, calls, recording,
          hist, log, pressed>>

controllerVars == <<yaw, pitch, isDragging, previousMousePosition>>
configVars == <<rotateSensitivity, enableZoom, zoomSensitivity, mouseButtons, touches>>
surfaceVars == <<domElement, listeners, touchAction>>

-----------------------------------------------------------------------------
(* Bounds of the model *)

\* |yaw| is kept within MaxYaw units of pi/8 (yaw itself is never clamped by the code)
MaxYaw == 10
\* pointer coordinates range over 0..MaxCoord in x and in y
MaxCoord == 1
\* at most MaxTouches fingers on the surface
MaxTouches == 2
\* WheelEvent.deltaY ranges over -MaxWheel..MaxWheel
MaxWheel == 2
\* while recording, at most MaxHist events are handled
MaxHist == 4

-----------------------------------------------------------------------------
(* Numbers of the program *)

\* Math.PI / 2 (line 170), in units of pi/8
HalfPi == 4
Pi == 2 * HalfPi
\* _minFov, _maxFov
minFov == 30
maxFov == 90

Abs(n) == IF n < 0 THEN -n ELSE n
Sign(n) == IF n < 0 THEN -1 ELSE IF n > 0 THEN 1 ELSE 0

\* the code of the component 1
One == 100
\* the codes beyond Tiny are those of the residues
Tiny == 1000
\* the code of the float -0 (negative, as its sign bit is set)
NegZero == -Tiny
IsZero(c) == c = 0 \/ c = NegZero
\* the floats a component coded 0 can be
SignedZeros(c) == IF c = 0 THEN {0, NegZero} ELSE {c}
\* the residue that is left of a component coded c
Residue(c) == IF c = 0 THEN 0 ELSE Sign(c) * (Tiny + Abs(c))
\* the order of magnitude of a component: a zero, a residue, any other
Level(c) == IF IsZero(c) THEN 0 ELSE IF Abs(c) > Tiny THEN 1 ELSE 2
\* the size of a component among those of its order of magnitude
Mag(c) == IF Abs(c) >= Tiny THEN Abs(c) - Tiny ELSE Abs(c)

\* THREE.MOUSE.ROTATE / THREE.TOUCH.ROTATE, an unset binding, no element
ROTATE == "ROTATE"
\* THREE.MOUSE.DOLLY / THREE.TOUCH.DOLLY_PAN: a value a binding can hold at
\* run time although the type of lines 40-42 admits ROTATE only
DOLLY == "DOLLY"
Undefined == "undefined"
Null == "null"
Element == "element"

Points == [x : 0..MaxCoord, y : 0..MaxCoord]
Buttons == {0, 1, 2}
WheelDeltas == (-MaxWheel)..MaxWheel

\* the event types connect() registers a handler for (lines 90-101)
EventTypes == {"mousedown", "mousemove", "mouseup", "mouseleave",
               "touchstart", "touchmove", "touchend", "wheel"}

-----------------------------------------------------------------------------
(* Math *)

\* an angle brought into one turn, 0..15
Wrap(a) == a % (4 * HalfPi)

\* the sines of the codes 0..7 of the first half turn: on the lattice 0,
\* sqrt(1/2), 1, sqrt(1/2); between two neighbours of the lattice the sine
\* of the class's angle
HalfTurn == <<0, 20, 50, 90, 100, 80, 50, 10>>

\* Math.sin
Sin(a) == IF Wrap(a) < Pi THEN HalfTurn[Wrap(a) + 1] ELSE -HalfTurn[Wrap(a) - Pi + 1]

\* Math.cos
Cos(a) == Sin(a + HalfPi)

\* the product of two components
Mul(a, b) == Sign(a) * Sign(b) * ((Abs(a) * Abs(b)) \div One)

\* a faulty Clamp: the lower limit is forgotten
ClampNoMin(v, lo, hi) == IF v > hi THEN hi ELSE v

\* Math.max(lo, Math.min(hi, v)) and THREE.MathUtils.clamp(v, lo, hi)
Clamp(v, lo, hi) == IF v < lo THEN lo ELSE IF v > hi THEN hi ELSE v

\* Math.atan(n / d) for sizes n and d, not both 0: an angle in [0, pi/2],
\* found by comparing the two
Atan(n, d) ==
    IF n = 0 THEN 0
    ELSE IF d = 0 THEN HalfPi
    ELSE IF n < d THEN 1
    ELSE IF n = d THEN 2
    ELSE 3

\* a faulty Atan2: the arguments are taken in the order (z, x)
Atan2Swapped(x, z) ==
    LET n == IF Level(z) < Level(x) THEN 0 ELSE Mag(z)
        d == IF Level(x) < Level(z) THEN 0 ELSE Mag(x)
    IN  IF n = 0 /\ d = 0
        THEN IF x = NegZero THEN (IF z = NegZero THEN -Pi ELSE Pi) ELSE 0
        ELSE IF n = 0
        THEN IF x > 0 THEN 0 ELSE IF z < 0 THEN -Pi ELSE Pi
        ELSE IF d = 0 \/ x > 0
        THEN Sign(z) * Atan(n, d)
        ELSE Sign(z) * (Pi - Atan(n, d))

\* Math.atan2(x, z).  The result is in [-pi, pi] and has the sign of x, also
\* when x is a zero: Math.atan2(+0, z) is +0 for z > 0 or z = +0 and pi for
\* z < 0 or z = -0; Math.atan2(-0, z) is -0 and -pi.  A component of a
\* lower order of magnitude than the other counts as a zero of its sign
\* (Math.atan2(1.2e-16, -1) is pi to the last bit).
Atan2(x, z) ==
    LET n == IF Level(x) < Level(z) THEN 0 ELSE Mag(x)
        d == IF Level(z) < Level(x) THEN 0 ELSE Mag(z)
    IN  IF n = 0 /\ d = 0
        THEN IF z = NegZero THEN (IF x = NegZero THEN -Pi ELSE Pi) ELSE 0
        ELSE IF n = 0
        THEN IF z > 0 THEN 0 ELSE IF x < 0 THEN -Pi ELSE Pi
        ELSE IF d = 0 \/ z > 0
        THEN Sign(x) * Atan(n, d)
        ELSE Sign(x) * (Pi - Atan(n, d))

\* Math.asin(y), an angle in [-pi/2, pi/2]; a residue counts as a zero
Asin(y) ==
    IF Level(y) < 2 THEN 0
    ELSE IF 2 * Abs(y) < One THEN Sign(y)
    ELSE IF 2 * Abs(y) = One THEN 2 * Sign(y)
    ELSE IF Abs(y) < One THEN 3 * Sign(y)
    ELSE HalfPi * Sign(y)

-----------------------------------------------------------------------------
(* The camera *)

\* the offset _updateCameraRotation computes from the angles (lines 216-218)
AnglesToDirection(y, p) ==
    [x |-> Mul(Cos(p), Sin(y)), y |-> Sin(p), z |-> Mul(Cos(p), Cos(y))]

\* the line from the camera to the target of these angles can be parallel
\* to camera.up = (0, 1, 0): the pitch is on a pole and Math.sin(yaw) is
\* exactly zero, so that x and z of the target are those of the camera's
\* position (10 + 6.1e-17 is 10).  Math.sin is exactly zero for the floats
\* +0 and -0 only (Math.sin(Math.PI) is 1.2e-16); the code 0 stands for
\* them and for the residues next to them (a press at yaw pi/2 and a move
\* by pi/2 leave 4.4e-16), for which the line is not parallel.
Parallel(y, p) == y = 0 /\ Abs(p) = HalfPi

\* camera.lookAt(position + offset), for a unit offset: the directions the
\* camera can face afterwards.  Matrix4.lookAt turns the camera to the
\* target, except when the line to it is parallel to camera.up: then it
\* moves the line by 1e-4 along z first, and the camera ends up facing
\* (-0, +-0.999999995, -1e-4), heading pi and a pitch just short of the
\* pole.
LookAt(offset, parallel) ==
    IF parallel
    THEN {offset, AnglesToDirection(Pi, Sign(offset.y) * (HalfPi - 1))}
    ELSE {offset}

\* what can be left of Math.cos(Math.PI/2) * (sin h, cos h) and of the
\* rounding of the camera's matrix: two residues in any ratio, that of
\* every heading h of the lattice and between two of its neighbours, or
\* zeros, each zero with either sign
Residues ==
    UNION {SignedZeros(b[1]) \X SignedZeros(b[2]) :
             b \in {<<0, 0>>} \cup
                   {<<Residue(Sin(h)), Residue(Cos(h))>> : h \in 0..(4 * HalfPi - 1)}}

\* camera.getWorldDirection(direction): the vectors it can return.  A
\* component of 0 comes back as +0 or as -0 (a camera never turned reports
\* (-0, -0, -1)).  For a camera turned straight up or down (by the pitch
\* clamp, which gives exactly +-Math.PI/2, or by the host) the horizontal
\* components are what the camera's matrix kept of
\* Math.cos(Math.PI/2) * (sin yaw, cos yaw) and of its own rounding: how
\* much depends on the position and on how the camera was turned before, so
\* every pair of residues, the zeros included, is a possible outcome.
GetWorldDirection(cam) ==
    IF Abs(cam.direction.y) = One
    THEN {[x |-> r[1], y |-> cam.direction.y, z |-> r[2]] : r \in Residues}
    ELSE [x : SignedZeros(cam.direction.x), y : SignedZeros(cam.direction.y),
          z : SignedZeros(cam.direction.z)]

\* every direction that has a code
Facings ==
    {AnglesToDirection(y, p) : y \in 0..(4 * HalfPi - 1), p \in (-HalfPi)..HalfPi}

\* lines 153-156, for every direction dir: the pairs <<_yaw, _pitch>> a press
\* can derive from a camera facing dir
DerivedTable ==
    {<<dir, {<<Atan2(direction.x, direction.z), Asin(direction.y)>> :
                direction \in GetWorldDirection([direction |-> dir])}>> :
        dir \in Facings}

\* lines 153-156: the yaw and the pitch a press can derive from the camera
DerivedAngles(cam) == (CHOOSE t \in DerivedTable : t[1] = cam.direction)[2]

\* the unit vectors the host turns the camera to: every direction of the
\* lattice, the poles included, and four directions off it, neither angle
\* of which is on the lattice
Directions ==
    {AnglesToDirection(2 * y, 2 * p) : y \in 0..7, p \in (-2)..2}
        \cup {AnglesToDirection(y, p) : y \in {3, 13}, p \in {-1, 3}}

-----------------------------------------------------------------------------
(* What an observer sees *)

NotificationTypes == {"start", "change", "end"}
IsNotification(c) == c \in NotificationTypes
\* the notifications among the calls a handler made (dispatchEvent is synchronous)
Notifications(cs) == SelectSeq(cs, IsNotification)

Event(type, arg) == [type |-> type, arg |-> arg]

\* the value of pressed when no such press is on record
NoPress == [yaw |-> 0, x |-> 0]

\* the handler of event ev has run and made the calls cs
Observe(ev, cs) ==
    /\ recording => Len(hist) < MaxHist
    /\ last' = ev
    /\ calls' = cs
    /\ recording' = recording
    /\ IF recording
       THEN hist' = Append(hist, ev) /\ log' = log \o Notifications(cs)
       ELSE UNCHANGED <<hist, log>>
    /\ pressed' = IF recording /\ hist = <<>> /\ cs = <<"getWorldDirection", "start">>
                  THEN [yaw |-> yaw', x |-> previousMousePosition'.x]
                  ELSE IF ev.type = "mousemove" THEN pressed ELSE NoPress

\* the element delivers an event of this type to the controller (while the
\* events are recorded: and the record has room for it)
Delivers(type) == (recording => Len(hist) < MaxHist) /\ type \in listeners

-----------------------------------------------------------------------------
(* connect, disconnect, dispose *)

\* a faulty Disconnect: the early return of line 107 is left out, so that
\* this.domElement.removeEventListener throws when there is no element
DisconnectUnguarded ==
    /\ domElement # Null
    /\ listeners' = {}
    /\ touchAction' = "auto"
    /\ UNCHANGED domElement
    /\ UNCHANGED <<controllerVars, configVars, camera, fingers>>
    /\ Observe(Event("disconnect", 0), <<>>)

\* a faulty Disconnect: removeEventListener('wheel', ...) (line 120) is left out
DisconnectKeepsWheel ==
    /\ IF domElement = Null
       THEN UNCHANGED <<listeners, touchAction>>
       ELSE listeners' = listeners \cap {"wheel"} /\ touchAction' = "auto"
    /\ UNCHANGED domElement
    /\ UNCHANGED <<controllerVars, configVars, camera, fingers>>
    /\ Observe(Event("disconnect", 0), <<>>)

\* disconnect() (lines 106-125); Controls.disconnect() itself does nothing
Disconnect ==
    /\ IF domElement = Null
       THEN UNCHANGED <<listeners, touchAction>>
       ELSE listeners' = {} /\ touchAction' = "auto"
    /\ UNCHANGED domElement
    /\ UNCHANGED <<controllerVars, configVars, camera, fingers>>
    /\ Observe(Event("disconnect", 0), <<>>)

\* connect(element) (lines 87-104); Controls.connect(element) first calls
\* this.disconnect() when an element is already set, then stores the element
Connect ==
    /\ domElement' = Element
    /\ listeners' = EventTypes
    /\ touchAction' = "none"
    /\ UNCHANGED <<controllerVars, configVars, camera, fingers>>
    /\ Observe(Event("connect", 0), <<>>)

-----------------------------------------------------------------------------
(* wheel *)

\* a faulty OnWheel: the test of enableZoom (line 132) is left out
OnWheelAlways(deltaY) ==
    /\ Delivers("wheel")
    /\ camera' = [camera EXCEPT !.fov =
                     Clamp(camera.fov + deltaY * zoomSensitivity, minFov, maxFov)]
    /\ Observe(Event("wheel", deltaY), <<"preventDefault", "updateProjectionMatrix">>)
    /\ UNCHANGED <<controllerVars, configVars, surfaceVars, fingers>>

\* _onWheel (lines 131-138)
OnWheel(deltaY) ==
    /\ Delivers("wheel")
    /\ IF ~enableZoom
       THEN /\ UNCHANGED camera
            /\ Observe(Event("wheel", deltaY), <<>>)
       ELSE /\ camera' = [camera EXCEPT !.fov =
                             Clamp(camera.fov + deltaY * zoomSensitivity, minFov, maxFov)]
            /\ Observe(Event("wheel", deltaY), <<"preventDefault", "updateProjectionMatrix">>)
    /\ UNCHANGED <<controllerVars, configVars, surfaceVars, fingers>>

-----------------------------------------------------------------------------
(* mouse *)

\* the switch of _onMouseDown (lines 141-149)
MouseAction(button) ==
    CASE button = 0 -> mouseButtons.LEFT
      [] button = 2 -> mouseButtons.RIGHT
      [] OTHER -> Undefined

\* a faulty Qualifies: only the test of undefined is made
QualifiesIfBound(button) == MouseAction(button) # Undefined

\* the test of line 150, negated: the press starts a rotation
Qualifies(button) ==
    ~(MouseAction(button) = Undefined \/ MouseAction(button) # ROTATE)

\* a faulty ClampPitch: Math.max(-Math.PI / 2, ...) is left out
ClampPitchUpperOnly(p) == IF p > HalfPi THEN HalfPi ELSE p

\* the pitch clamp of lines 170 and 199
ClampPitch(p) == Clamp(p, -HalfPi, HalfPi)

\* a faulty Rotate: yaw += dx * rotateSensitivity
RotateInverted(p) ==
    LET dx == p.x - previousMousePosition.x
        dy == p.y - previousMousePosition.y
    IN  /\ Abs(yaw + dx * rotateSensitivity) <= MaxYaw
        /\ yaw' = yaw + dx * rotateSensitivity
        /\ pitch' = ClampPitch(pitch - dy * rotateSensitivity)
        /\ \E d \in LookAt(AnglesToDirection(yaw', pitch'), Parallel(yaw', pitch')) :
               camera' = [camera EXCEPT !.direction = d]
        /\ previousMousePosition' = p

\* a faulty Rotate: _updateCameraRotation() is called before the angles are
\* updated, so that the camera is turned by the angles of the move before
RotateStale(p) ==
    LET dx == p.x - previousMousePosition.x
        dy == p.y - previousMousePosition.y
    IN  /\ Abs(yaw - dx * rotateSensitivity) <= MaxYaw
        /\ yaw' = yaw - dx * rotateSensitivity
        /\ pitch' = ClampPitch(pitch - dy * rotateSensitivity)
        /\ \E d \in LookAt(AnglesToDirection(yaw, pitch), Parallel(yaw, pitch)) :
               camera' = [camera EXCEPT !.direction = d]
        /\ previousMousePosition' = p

\* lines 164-173 and 193-205: the angles follow the pointer, the camera is
\* turned (_updateCameraRotation, lines 214-224) and the pointer is remembered
Rotate(p) ==
    LET dx == p.x - previousMousePosition.x
        dy == p.y - previousMousePosition.y
    IN  /\ Abs(yaw - dx * rotateSensitivity) <= MaxYaw
        /\ yaw' = yaw - dx * rotateSensitivity
        /\ pitch' = ClampPitch(pitch - dy * rotateSensitivity)
        /\ \E d \in LookAt(AnglesToDirection(yaw', pitch'), Parallel(yaw', pitch')) :
               camera' = [camera EXCEPT !.direction = d]
        /\ previousMousePosition' = p

\* a faulty OnMouseDown: _updateCameraRotation() is called at the end of a
\* qualifying press
OnMouseDownTurning(button, p) ==
    /\ Delivers("mousedown")
    /\ IF ~Qualifies(button)
       THEN /\ UNCHANGED <<controllerVars, camera>>
            /\ Observe(Event("mousedown", button), <<>>)
       ELSE /\ isDragging' = TRUE
            /\ previousMousePosition' = p
            /\ \E angles \in DerivedAngles(camera) :
                   /\ yaw' = angles[1]
                   /\ pitch' = angles[2]
            /\ \E d \in LookAt(AnglesToDirection(yaw', pitch'), Parallel(yaw', pitch')) :
                   camera' = [camera EXCEPT !.direction = d]
            /\ Observe(Event("mousedown", button),
                       <<"getWorldDirection", "start", "lookAt", "change">>)
    /\ UNCHANGED <<configVars, surfaceVars, fingers>>

\* _onMouseDown (lines 140-159)
OnMouseDown(button, p) ==
    /\ Delivers("mousedown")
    /\ IF ~Qualifies(button)
       THEN /\ UNCHANGED controllerVars
            /\ Observe(Event("mousedown", button), <<>>)
       ELSE /\ isDragging' = TRUE
            /\ previousMousePosition' = p
            /\ \E angles \in DerivedAngles(camera) :
                   /\ yaw' = angles[1]
                   /\ pitch' = angles[2]
            /\ Observe(Event("mousedown", button), <<"getWorldDirection", "start">>)
    /\ UNCHANGED <<configVars, surfaceVars, camera, fingers>>

\* a faulty OnMouseMove: a move that does not move the pointer is skipped
OnMouseMoveIfMoved(p) ==
    /\ Delivers("mousemove")
    /\ IF ~isDragging \/ p = previousMousePosition
       THEN /\ UNCHANGED <<controllerVars, camera>>
            /\ Observe(Event("mousemove", 0), <<>>)
       ELSE /\ Rotate(p)
            /\ UNCHANGED isDragging
            /\ Observe(Event("mousemove", 0), <<"lookAt", "change">>)
    /\ UNCHANGED <<configVars, surfaceVars, fingers>>

\* a faulty OnMouseMove: the test of _isDragging (line 162) is left out
OnMouseMoveUnguarded(p) ==
    /\ Delivers("mousemove")
    /\ Rotate(p)
    /\ UNCHANGED isDragging
    /\ Observe(Event("mousemove", 0), <<"lookAt", "change">>)
    /\ UNCHANGED <<configVars, surfaceVars, fingers>>

\* a faulty OnMouseMove: the pointer is not remembered (line 173 is left out)
OnMouseMoveKeepsPointer(p) ==
    /\ Delivers("mousemove")
    /\ IF ~isDragging
       THEN /\ UNCHANGED <<controllerVars, camera>>
            /\ Observe(Event("mousemove", 0), <<>>)
       ELSE /\ Abs(yaw - (p.x - previousMousePosition.x) * rotateSensitivity) <= MaxYaw
            /\ yaw' = yaw - (p.x - previousMousePosition.x) * rotateSensitivity
            /\ pitch' = ClampPitch(pitch - (p.y - previousMousePosition.y) * rotateSensitivity)
            /\ \E d \in LookAt(AnglesToDirection(yaw', pitch'), Parallel(yaw', pitch')) :
                   camera' = [camera EXCEPT !.direction = d]
            /\ UNCHANGED <<isDragging, previousMousePosition>>
            /\ Observe(Event("mousemove", 0), <<"lookAt", "change">>)
    /\ UNCHANGED <<configVars, surfaceVars, fingers>>

\* _onMouseMove (lines 161-174)
OnMouseMove(p) ==
    /\ Delivers("mousemove")
    /\ IF ~isDragging
       THEN /\ UNCHANGED <<controllerVars, camera>>
            /\ Observe(Event("mousemove", 0), <<>>)
       ELSE /\ Rotate(p)
            /\ UNCHANGED isDragging
            /\ Observe(Event("mousemove", 0), <<"lookAt", "change">>)
    /\ UNCHANGED <<configVars, surfaceVars, fingers>>

\* a faulty OnMouseUp: `end` is dispatched only when a drag was open
OnMouseUpGuarded(type) ==
    /\ Delivers(type)
    /\ isDragging' = FALSE
    /\ UNCHANGED <<yaw, pitch, previousMousePosition>>
    /\ UNCHANGED <<configVars, surfaceVars, camera, fingers>>
    /\ Observe(Event(type, 0), IF isDragging THEN <<"end">> ELSE <<>>)

\* _onMouseUp (lines 176-179), the handler of mouseup and of mouseleave
OnMouseUp(type) ==
    /\ Delivers(type)
    /\ isDragging' = FALSE
    /\ UNCHANGED <<yaw, pitch, previousMousePosition>>
    /\ UNCHANGED <<configVars, surfaceVars, camera, fingers>>
    /\ Observe(Event(type, 0), <<"end">>)

-----------------------------------------------------------------------------
(* touch: e.touches holds the touch points on the surface after the event, *)
(* e.touches[0] is at p                                                    *)

\* _onTouchStart (lines 181-189): one more finger is down
OnTouchStart(p) ==
    /\ Delivers("touchstart")
    /\ fingers < MaxTouches
    /\ fingers' = fingers + 1
    /\ IF fingers' = 1
       THEN previousMousePosition' = p
       ELSE UNCHANGED previousMousePosition
    /\ UNCHANGED <<yaw, pitch, isDragging>>
    /\ UNCHANGED <<configVars, surfaceVars, camera>>
    /\ Observe(Event("touchstart", fingers'), <<"start">>)

\* a faulty OnTouchMove: the test e.touches.length === 1 (line 192) is left out
OnTouchMoveAny(p) ==
    /\ Delivers("touchmove")
    /\ fingers >= 1
    /\ Rotate(p)
    /\ UNCHANGED isDragging
    /\ Observe(Event("touchmove", fingers), <<"lookAt", "change">>)
    /\ UNCHANGED <<configVars, surfaceVars, fingers>>

\* _onTouchMove (lines 191-207)
OnTouchMove(p) ==
    /\ Delivers("touchmove")
    /\ fingers >= 1
    /\ IF fingers = 1
       THEN /\ Rotate(p)
            /\ UNCHANGED isDragging
            /\ Observe(Event("touchmove", fingers), <<"lookAt", "change">>)
       ELSE /\ UNCHANGED <<controllerVars, camera>>
            /\ Observe(Event("touchmove", fingers), <<>>)
    /\ UNCHANGED <<configVars, surfaceVars, fingers>>

\* _onTouchEnd (lines 209-211): one finger is lifted
OnTouchEnd ==
    /\ Delivers("touchend")
    /\ fingers >= 1
    /\ fingers' = fingers - 1
    /\ UNCHANGED <<controllerVars, configVars, surfaceVars, camera>>
    /\ Observe(Event("touchend", fingers'), <<"end">>)

-----------------------------------------------------------------------------
(* The host application *)

\* the host turns the camera itself, as Scene.tsx does with
\* camera.rotation.copy(...) (line 93)
ExternalOrient(d) ==
    /\ camera' = [camera EXCEPT !.direction = d]
    /\ UNCHANGED <<controllerVars, configVars, surfaceVars, fingers>>
    /\ Observe(Event("orient", 0), <<>>)

\* the host sets the public field enableZoom (line 55)
SetEnableZoom(b) ==
    /\ enableZoom' = b
    /\ UNCHANGED <<rotateSensitivity, zoomSensitivity, mouseButtons, touches>>
    /\ UNCHANGED <<controllerVars, surfaceVars, camera, fingers>>
    /\ Observe(Event("enableZoom", 0), <<>>)

\* the values the host can give the public field mouseButtons (line 62)
MouseBindings == [LEFT : {ROTATE, Undefined, DOLLY}, RIGHT : {Undefined, ROTATE}]

\* the values the host can give the public field touches (line 64)
TouchBindings == [ONE : {ROTATE, Undefined, DOLLY}, TWO : {Undefined}]

\* the host sets the public field mouseButtons (line 62)
SetMouseButtons(mb) ==
    /\ mouseButtons' = mb
    /\ UNCHANGED <<rotateSensitivity, enableZoom, zoomSensitivity, touches>>
    /\ UNCHANGED <<controllerVars, surfaceVars, camera, fingers>>
    /\ Observe(Event("mouseButtons", 0), <<>>)

\* the host sets the public field touches (line 64)
SetTouches(t) ==
    /\ touches' = t
    /\ UNCHANGED <<rotateSensitivity, enableZoom, zoomSensitivity, mouseButtons>>
    /\ UNCHANGED <<controllerVars, surfaceVars, camera, fingers>>
    /\ Observe(Event("touches", 0), <<>>)

-----------------------------------------------------------------------------
(* Construction *)

\* the fields as the class initialises them (lines 53-77)
InitFields ==
    /\ yaw = 0
    /\ pitch = 0
    /\ isDragging = FALSE
    /\ previousMousePosition = [x |-> 0, y |-> 0]
    /\ enableZoom = TRUE
    /\ mouseButtons = [LEFT |-> ROTATE, RIGHT |-> Undefined]
    /\ touches = [ONE |-> ROTATE, TWO |-> Undefined]

\* the constructor (lines 79-85) given an element: connected at once
InitConnected ==
    /\ domElement = Element
    /\ listeners = EventTypes
    /\ touchAction = "none"

\* the constructor given no element
InitUnconnected ==
    /\ domElement = Null
    /\ listeners = {}
    /\ touchAction = ""

InitObserver ==
    /\ last = Event("new", 0)
    /\ calls = <<>>
    /\ hist = <<>>
    /\ log = <<>>
    /\ pressed = NoPress

\* the camera of the demo scene (Scene.tsx lines 13, 51-53): a new
\* PerspectiveCamera has fov 50
ScenePosition == [x |-> 0, y |-> 10, z |-> 10]

-----------------------------------------------------------------------------
(* Spec: every event of the controller, on a camera that starts facing -Z  *)
(* or back and down to the right                                           *)

Init ==
    /\ InitFields
    /\ InitConnected \/ InitUnconnected
    /\ rotateSensitivity = -4
    /\ zoomSensitivity = 60
    /\ camera \in [direction : {AnglesToDirection(Pi, 0), AnglesToDirection(6, -2)},
                   fov : {50}, position : {ScenePosition}]
    /\ fingers = 0
    /\ recording = FALSE
    /\ InitObserver

Next ==
    \/ Connect
    \/ Disconnect
    \/ \E deltaY \in WheelDeltas : OnWheel(deltaY)
    \/ \E button \in Buttons, p \in Points : OnMouseDown(button, p)
    \/ \E p \in Points : OnMouseMove(p)
    \/ \E type \in {"mouseup", "mouseleave"} : OnMouseUp(type)
    \/ \E p \in Points : OnTouchStart(p)
    \/ \E p \in Points : OnTouchMove(p)
    \/ OnTouchEnd

Spec == Init /\ [][Next]_vars

-----------------------------------------------------------------------------
(* SpecResync: mouse gestures on a camera the host also turns              *)

\* a connected controller and a camera facing any direction the host can
\* give it
InitResync ==
    /\ InitFields
    /\ InitConnected
    /\ rotateSensitivity = 2
    /\ zoomSensitivity = 20
    /\ camera \in [direction : Directions, fov : {50}, position : {ScenePosition}]
    /\ fingers = 0
    /\ recording = FALSE
    /\ InitObserver

NextResync ==
    \/ \E d \in Directions : ExternalOrient(d)
    \/ \E button \in Buttons, p \in Points : OnMouseDown(button, p)
    \/ \E p \in Points : OnMouseMove(p)
    \/ \E type \in {"mouseup", "mouseleave"} : OnMouseUp(type)

SpecResync == InitResync /\ [][NextResync]_vars

-----------------------------------------------------------------------------
(* SpecTouch: touch gestures of up to MaxTouches fingers on a camera the   *)
(* host also turns                                                         *)

NextTouch ==
    \/ \E d \in Directions : ExternalOrient(d)
    \/ \E p \in Points : OnTouchStart(p)
    \/ \E p \in Points : OnTouchMove(p)
    \/ OnTouchEnd

SpecTouch == InitResync /\ [][NextTouch]_vars

-----------------------------------------------------------------------------
(* SpecZoom: the wheel, with zoom switched on and off, during and between  *)
(* drags, on a camera whose fov the host may have set outside [30, 90]     *)

InitZoom ==
    /\ InitFields
    /\ InitConnected
    /\ rotateSensitivity = 2
    /\ zoomSensitivity \in {10, 25}
    /\ camera \in [direction : {AnglesToDirection(Pi, 0)}, fov : {10, 50, 120},
                   position : {ScenePosition}]
    /\ fingers = 0
    /\ recording = FALSE
    /\ InitObserver

NextZoom ==
    \/ \E deltaY \in WheelDeltas : OnWheel(deltaY)
    \/ \E b \in BOOLEAN : SetEnableZoom(b)
    \/ \E button \in Buttons, p \in Points : OnMouseDown(button, p)
    \/ \E type \in {"mouseup", "mouseleave"} : OnMouseUp(type)

SpecZoom == InitZoom /\ [][NextZoom]_vars

-----------------------------------------------------------------------------
(* SpecRecorded: mouse and touch events with a subscriber that keeps every *)
(* notification, from any idle state, for runs of at most MaxHist events;  *)
(* the presses are of the left button (bound to rotate) and of the middle  *)
(* button (never bound)                                                    *)

InitRecorded ==
    /\ yaw \in {0, 10}
    /\ pitch \in {0, HalfPi}
    /\ isDragging = FALSE
    /\ previousMousePosition = [x |-> 0, y |-> 0]
    /\ enableZoom = TRUE
    /\ mouseButtons = [LEFT |-> ROTATE, RIGHT |-> Undefined]
    /\ touches = [ONE |-> ROTATE, TWO |-> Undefined]
    /\ InitConnected
    /\ rotateSensitivity = 2
    /\ zoomSensitivity = 20
    /\ camera \in [direction : {AnglesToDirection(Pi, 0)}, fov : {50},
                   position : {ScenePosition}]
    /\ fingers = 0
    /\ recording = TRUE
    /\ InitObserver

NextRecorded ==
    \/ \E button \in {0, 1}, p \in Points : OnMouseDown(button, p)
    \/ \E p \in Points : OnMouseMove(p)
    \/ \E type \in {"mouseup", "mouseleave"} : OnMouseUp(type)
    \/ \E p \in Points : OnTouchStart(p)
    \/ \E p \in Points : OnTouchMove(p)
    \/ OnTouchEnd

SpecRecorded == InitRecorded /\ [][NextRecorded]_vars

-----------------------------------------------------------------------------
(* SpecBindings: mouse gestures while the host rebinds the mouse buttons,   *)
(* SpecTouchBindings: touch gestures while the host rebinds the touches    *)

InitBindings ==
    /\ InitFields
    /\ InitConnected
    /\ rotateSensitivity = 4
    /\ zoomSensitivity = 20
    /\ camera \in [direction : {AnglesToDirection(Pi, 0)}, fov : {50},
                   position : {ScenePosition}]
    /\ fingers = 0
    /\ recording = FALSE
    /\ InitObserver

NextBindings ==
    \/ \E mb \in MouseBindings : SetMouseButtons(mb)
    \/ \E button \in Buttons, p \in Points : OnMouseDown(button, p)
    \/ \E p \in Points : OnMouseMove(p)
    \/ \E type \in {"mouseup", "mouseleave"} : OnMouseUp(type)

SpecBindings == InitBindings /\ [][NextBindings]_vars

NextTouchBindings ==
    \/ \E t \in TouchBindings : SetTouches(t)
    \/ \E p \in Points : OnTouchStart(p)
    \/ \E p \in Points : OnTouchMove(p)
    \/ OnTouchEnd

SpecTouchBindings == InitBindings /\ [][NextTouchBindings]_vars

-----------------------------------------------------------------------------
(* Properties *)

\* the last event left the camera turned and `change` dispatched
Rotated == calls = <<"lookAt", "change">>

\* the sign bit of a component, and the pair (x, z) with each component
\* replaced by its signed size, a component of a lower order of magnitude
\* than the other by 0
SignBit(c) == c < 0
Sized(x, z) ==
    <<IF Level(x) < Level(z) THEN 0 ELSE Sign(x) * Mag(x),
      IF Level(z) < Level(x) THEN 0 ELSE Sign(z) * Mag(z)>>

\* a is the angle Math.atan2(x, z) of the point (x, z): the a in [-pi, pi]
\* that has the sign of x and (sin a, cos a) a positive multiple of (x, z);
\* for x and z both zero, 0 if z is +0 and +-pi if z is -0
IsAtan2(a, x, z) ==
    /\ -Pi <= a /\ a <= Pi
    /\ IF SignBit(x) THEN a <= 0 ELSE a >= 0
    /\ IF IsZero(x) /\ IsZero(z)
       THEN IF SignBit(z) THEN Abs(a) = Pi ELSE a = 0
       ELSE LET v == Sized(x, z)
            IN  /\ Sign(Sin(a)) = Sign(v[1])
                /\ Sign(Cos(a)) = Sign(v[2])
                /\ Abs(Sin(a)) * Abs(v[2]) = Abs(Cos(a)) * Abs(v[1])

\* a is the angle Math.asin(y): the a in [-pi/2, pi/2] with sin a = y
IsAsin(a, y) ==
    -HalfPi <= a /\ a <= HalfPi /\ Sin(a) = (IF Level(y) < 2 THEN 0 ELSE y)

\* the triples <<dir, a, b>> of a direction dir a camera can face and the
\* angles a = atan2(d.x, d.z) and b = asin(d.y) of a vector d it can report
AnglesOf ==
    {t : t \in
        {u \in Facings \X ((-Pi)..Pi) \X ((-HalfPi)..HalfPi) :
            \E d \in GetWorldDirection([direction |-> u[1]]) :
                IsAtan2(u[2], d.x, d.z) /\ IsAsin(u[3], d.y)}}

\* the stored angles are the ones derived from a direction the camera reports
Resynced == <<camera.direction, yaw, pitch>> \in AnglesOf

\* C1. Pitch clamp invariant: in every state reachable by any sequence of
\* controller events, with any pointer deltas and any rotateSensitivity, the
\* stored pitch lies in [-pi/2, pi/2], bounds included.
C1_PitchClamped == -HalfPi <= pitch /\ pitch <= HalfPi

\* a touch move has driven the pitch onto the lower bound, which clamps the
\* step of pi/2 that leads past it
C1_Witness ==
    /\ last.type = "touchmove"
    /\ Rotated
    /\ pitch = -HalfPi
    /\ rotateSensitivity = -4

\* C2. Idle no-op for mouse move: while no drag is open, a mouse move leaves
\* yaw, pitch, the last pointer and the camera unchanged and dispatches no
\* notification.
C2_IdleMoveNoOp ==
    [][(last'.type = "mousemove" /\ ~isDragging)
        => /\ UNCHANGED <<yaw, pitch, previousMousePosition, camera, isDragging>>
           /\ Notifications(calls') = <<>>]_vars

\* a mouse move was ignored after a drag had turned the yaw past pi and was released
C2_Witness ==
    /\ last.type = "mousemove"
    /\ ~isDragging
    /\ calls = <<>>
    /\ yaw > Pi

\* the events handled so far are one mouse gesture: a qualifying press,
\* then moves only, then a release
IsGesture(h) ==
    /\ Len(h) >= 2
    /\ h[1].type = "mousedown" /\ Qualifies(h[1].arg)
    /\ h[Len(h)].type \in {"mouseup", "mouseleave"}
    /\ \A i \in 2..(Len(h) - 1) : h[i].type = "mousemove"

\* start, n times change, end
GestureLog(n) == <<"start">> \o [i \in 1..n |-> "change"] \o <<"end">>

\* C3. Lifecycle emission order: from Idle, the mouse sequence qualifying
\* press, n moves, release dispatches exactly start, n times change, end, in
\* that order.
C3_LifecycleOrder == IsGesture(hist) => log = GestureLog(Len(hist) - 2)

\* a gesture with two moves has been completed
C3_Witness == IsGesture(hist) /\ Len(hist) = 4 /\ log = GestureLog(2)

\* C4. Gesture resync on mouse press: a qualifying press sets yaw to
\* atan2(d.x, d.z) and pitch to asin(d.y) for the world direction d the
\* camera reports at the press, whatever the stored angles were, opens the
\* drag and remembers the press coordinate.
C4_PressResyncs ==
    [][(last'.type = "mousedown" /\ Qualifies(last'.arg)) =>
         /\ <<camera.direction, yaw', pitch'>> \in AnglesOf
         /\ isDragging'
         /\ \A p \in Points :
                p # previousMousePosition' => ~OnMouseDown(last'.arg, p)]_vars

\* a press on a camera facing -Z and slightly down, reached with other angles stored
C4_Witness ==
    /\ last.type = "mousedown"
    /\ calls = <<"getWorldDirection", "start">>
    /\ camera.direction = AnglesToDirection(Pi, -2)
    /\ yaw = Pi
    /\ pitch = -2
    /\ previousMousePosition = [x |-> 1, y |-> 1]

\* C5. Every gesture start resyncs, touch included: after the touch-start of
\* a first finger the stored angles are the ones derived from the camera's
\* current direction.
C5_TouchStartResyncs ==
    (last.type = "touchstart" /\ last.arg = 1) => Resynced

\* C6. Drag math: in a drag, a mouse move to p gives
\* yaw' = yaw - dx * rotateSensitivity (not clamped),
\* pitch' = clamp(pitch - dy * rotateSensitivity, -pi/2, pi/2) and
\* lastPointer' = p; dy = 0 leaves pitch and dx = 0 leaves yaw unchanged.
C6_DragMath ==
    [][(last'.type = "mousemove" /\ isDragging) =>
         \A p \in Points :
           OnMouseMove(p)
             => LET dx == p.x - previousMousePosition.x
                    dy == p.y - previousMousePosition.y
                    raw == pitch - dy * rotateSensitivity
                IN  /\ yaw' = yaw - dx * rotateSensitivity
                    /\ pitch' = IF raw < -HalfPi THEN -HalfPi
                                ELSE IF raw > HalfPi THEN HalfPi ELSE raw
                    /\ previousMousePosition' = p
                    /\ dy = 0 => pitch' = pitch
                    /\ dx = 0 => yaw' = yaw]_vars

\* a drag has turned the yaw below -pi, where atan2 never puts it
C6_Witness ==
    /\ last.type = "mousemove"
    /\ isDragging
    /\ Rotated
    /\ yaw < -Pi

\* C7. Zoom clamp: with zoom enabled, a wheel event of delta deltaY sets fov
\* to clamp(fov + deltaY * zoomSensitivity, 30, 90), so fov is in [30, 90]
\* afterwards, whatever it was before.
C7_ZoomClamp ==
    [][(last'.type = "wheel" /\ enableZoom)
        => LET raw == camera.fov + last'.arg * zoomSensitivity
           IN  /\ camera'.fov = IF raw < 30 THEN 30 ELSE IF raw > 90 THEN 90 ELSE raw
               /\ 30 <= camera'.fov /\ camera'.fov <= 90]_vars

\* a wheel event has left fov on the lower limit, which steps of 25 from 50
\* or from 120 reach only by being clamped
C7_Witness ==
    /\ last.type = "wheel"
    /\ calls = <<"preventDefault", "updateProjectionMatrix">>
    /\ zoomSensitivity = 25
    /\ camera.fov = minFov

\* C8. Wheel touches only the field of view: a wheel event dispatches no
\* notification and leaves yaw, pitch, the last pointer, the drag flag and
\* the camera's direction and position unchanged; with zoom disabled it does
\* nothing at all.
C8_WheelOnlyFov ==
    [][last'.type = "wheel"
        => /\ Notifications(calls') = <<>>
           /\ UNCHANGED <<yaw, pitch, previousMousePosition, isDragging>>
           /\ camera'.direction = camera.direction
           /\ camera'.position = camera.position
           /\ ~enableZoom => (calls' = <<>> /\ UNCHANGED camera)]_vars

\* a wheel event was ignored, zoom being disabled, in the middle of a drag
C8_Witness ==
    /\ last.type = "wheel"
    /\ last.arg # 0
    /\ ~enableZoom
    /\ isDragging
    /\ calls = <<>>

\* C9. Second-touch isolation: the touch-start of a second finger leaves the
\* last pointer, yaw and pitch unchanged, and a touch-move with two fingers
\* down leaves yaw, pitch, the last pointer and the camera unchanged and
\* dispatches no `change`.
C9_SecondTouchIsolated ==
    [][/\ (last'.type = "touchstart" /\ last'.arg >= 2)
            => UNCHANGED <<yaw, pitch, previousMousePosition>>
       /\ (last'.type = "touchmove" /\ last'.arg >= 2)
            => /\ UNCHANGED <<yaw, pitch, previousMousePosition, camera>>
               /\ Notifications(calls') = <<>>]_vars

\* a two-finger touch move was ignored after one-finger moves had turned the yaw past pi
C9_Witness ==
    /\ last.type = "touchmove"
    /\ last.arg = 2
    /\ calls = <<>>
    /\ yaw > Pi

\* C10. A second finger neither breaks nor extends a touch gesture: first
\* finger down, second finger down, second finger up, first finger up
\* dispatches `start` once and `end` once.
C10_OneStartOneEnd ==
    hist = <<Event("touchstart", 1), Event("touchstart", 2),
             Event("touchend", 1), Event("touchend", 0)>>
        => log = <<"start", "end">>

\* the button resolves to the rotate action under the bindings mb
ResolvesToRotate(button, mb) ==
    \/ button = 0 /\ mb.LEFT = ROTATE
    \/ button = 2 /\ mb.RIGHT = ROTATE

\* C11. Non-rotate mouse press is inert: a press whose button does not
\* resolve to rotate under the current mouseButtons (the middle button, the
\* right button while RIGHT is unset, the left button after LEFT was unset or
\* set to another value) opens no drag, leaves yaw, pitch, the last pointer
\* and the camera unchanged and dispatches no `start`; a mouse move that
\* follows such a press, no drag being open, is a no-op.
C11_InertPress ==
    [][/\ (last'.type = "mousedown" /\ ~ResolvesToRotate(last'.arg, mouseButtons))
            => /\ UNCHANGED <<yaw, pitch, previousMousePosition, camera, isDragging>>
               /\ Notifications(calls') = <<>>
       /\ (/\ last.type = "mousedown"
           /\ ~ResolvesToRotate(last.arg, mouseButtons)
           /\ ~isDragging
           /\ last'.type = "mousemove")
            => /\ UNCHANGED <<yaw, pitch, previousMousePosition, camera, isDragging>>
               /\ Notifications(calls') = <<>>]_vars

\* a left press was ignored, LEFT being bound to another action, after an
\* earlier drag had turned the yaw past pi
C11_Witness ==
    /\ last = Event("mousedown", 0)
    /\ mouseButtons.LEFT = DOLLY
    /\ calls = <<>>
    /\ ~isDragging
    /\ yaw > Pi

\* C12. Touch binding is honoured: while touches.ONE is unset or bound to
\* another action than rotate, a touch-start dispatches no `start`, and a
\* touch-move leaves yaw, pitch and the camera unchanged and dispatches no
\* `change`.
C12_TouchBindingHonoured ==
    [][(touches.ONE # ROTATE /\ last'.type \in {"touchstart", "touchmove"})
        => /\ Notifications(calls') = <<>>
           /\ UNCHANGED <<yaw, pitch, camera>>]_vars

\* C13. Release is unconditional and idempotent: a mouse release or leave
\* always leaves the drag closed and always dispatches exactly one `end`,
\* also when no drag was open; it never alters yaw, pitch, the last pointer
\* or the camera.
C13_ReleaseUnconditional ==
    [][last'.type \in {"mouseup", "mouseleave"}
        => /\ ~isDragging'
           /\ Notifications(calls') = <<"end">>
           /\ UNCHANGED <<yaw, pitch, previousMousePosition, camera>>]_vars

\* a leave dispatched `end` although no press ever opened a drag: the yaw is
\* still the initial 0, which a press on this camera would have set to pi
\* or to -pi
C13_Witness ==
    /\ last.type = "mouseleave"
    /\ calls = <<"end">>
    /\ ~isDragging
    /\ yaw = 0
    /\ camera.direction = AnglesToDirection(Pi, 0)

\* the surface handles touch gestures natively: touch-action is `auto`, or
\* the style was never set
Native(ta) == ta \in {"auto", ""}

\* C14. Detach idempotence: disconnect can be called in every state, also
\* twice in a row and on a controller that was never connected; after it no
\* handler of the controller is registered and touch-action is native, and a
\* second disconnect right after a first changes nothing.
C14_DetachIdempotent ==
    [][/\ ENABLED Disconnect
       /\ last'.type = "disconnect"
            => /\ listeners' = {}
               /\ Native(touchAction')
               /\ last.type = "disconnect"
                    => UNCHANGED <<controllerVars, configVars, surfaceVars,
                                   camera, fingers>>]_vars

\* disconnect has returned on a controller that was never connected
C14_Witness ==
    /\ last.type = "disconnect"
    /\ domElement = Null
    /\ listeners = {}
    /\ touchAction = ""

\* C15. Listeners are registered exactly while attached: connect leaves the
\* eight handlers registered and touch-action `none`; disconnect leaves none
\* registered; from a disconnect until the next connect no input event is
\* handled, so yaw, pitch, the fov and the camera stay as they are and no
\* notification is dispatched.
C15_ListenersWhileAttached ==
    [][/\ last'.type = "connect"
            => /\ listeners' = {"mousedown", "mousemove", "mouseup", "mouseleave",
                                "touchstart", "touchmove", "touchend", "wheel"}
               /\ touchAction' = "none"
       /\ last'.type = "disconnect" => listeners' = {}
       /\ last.type = "disconnect"
            => /\ last'.type \in {"connect", "disconnect"}
               /\ UNCHANGED <<yaw, pitch, camera>>
               /\ Notifications(calls') = <<>>]_vars

\* the controller was disconnected in the middle of a drag that had turned the camera
C15_Witness ==
    /\ last.type = "disconnect"
    /\ listeners = {}
    /\ touchAction = "auto"
    /\ isDragging
    /\ yaw > Pi

\* C16. `change` only inside a gesture: every `change` a subscriber receives
\* comes after a `start` with no `end` between the two.
C16_ChangeInsideGesture ==
    \A i \in 1..Len(log) :
        log[i] = "change"
            => \E j \in 1..(i - 1) :
                   /\ log[j] = "start"
                   /\ \A k \in (j + 1)..(i - 1) : log[k] # "end"

\* C17. Orientation is applied before it is announced: a mouse move in a
\* drag and a one-finger touch move leave the pitch clamped, call lookAt
\* once, with the target position + (cos p sin y, sin p, cos p cos y) of the
\* updated angles y and p, and only then dispatch one `change`, so that the
\* camera faces that direction when `change` is received; no step of the
\* controller moves the camera's position.
C17_AppliedThenAnnounced ==
    [][/\ (\/ last'.type = "mousemove" /\ isDragging
           \/ last'.type = "touchmove" /\ last'.arg = 1)
            => /\ -HalfPi <= pitch' /\ pitch' <= HalfPi
               /\ calls' = <<"lookAt", "change">>
       /\ "change" \in {calls'[i] : i \in 1..Len(calls')}
            => camera'.direction \in
                 LookAt([x |-> Mul(Cos(pitch'), Sin(yaw')),
                         y |-> Sin(pitch'),
                         z |-> Mul(Cos(pitch'), Cos(yaw'))],
                        yaw' = 0 /\ Abs(pitch') = HalfPi)
       /\ camera'.position = camera.position]_vars

\* a one-finger touch move has turned the camera to look back and down:
\* yaw 3 pi/4 and pitch -pi/4 give (1/2, -sqrt(1/2), -1/2)
C17_Witness ==
    /\ last = Event("touchmove", 1)
    /\ calls = <<"lookAt", "change">>
    /\ yaw = 6
    /\ pitch = -2
    /\ camera.direction = [x |-> 25, y |-> -50, z |-> -25]
    /\ camera.position = ScenePosition

\* C18. Press does not move the camera: a qualifying mouse press and a
\* touch-start call no lookAt, leave the camera's direction, position and
\* fov unchanged and dispatch no `change`.
C18_PressKeepsCamera ==
    [][(\/ last'.type = "mousedown" /\ ResolvesToRotate(last'.arg, mouseButtons)
        \/ last'.type = "touchstart")
        => /\ UNCHANGED camera
           /\ \A i \in 1..Len(calls') : calls'[i] \notin {"lookAt", "change"}]_vars

\* a press has derived the angles of a camera that an earlier touch gesture
\* had turned, and the camera still faces where that gesture left it
C18_Witness ==
    /\ last = Event("mousedown", 0)
    /\ calls = <<"getWorldDirection", "start">>
    /\ fingers = 1
    /\ camera.direction = AnglesToDirection(-6, 2)
    /\ yaw = -6
    /\ pitch = 2

\* C19. Detach closes an open drag: when the controller is connected again
\* after a disconnect, no drag is open, and a mouse move that comes next
\* leaves yaw, pitch and the camera unchanged and dispatches no `change`.
C19_DetachClosesDrag ==
    [][/\ (last.type = "disconnect" /\ last'.type = "connect") => ~isDragging'
       /\ (last.type = "connect" /\ last'.type = "mousemove")
            => /\ UNCHANGED <<yaw, pitch, camera>>
               /\ Notifications(calls') = <<>>]_vars

\* the events handled so far are a qualifying press followed by moves only
IsDrag(h) ==
    /\ Len(h) >= 1
    /\ h[1].type = "mousedown" /\ ResolvesToRotate(h[1].arg, mouseButtons)
    /\ \A i \in 2..Len(h) : h[i].type = "mousemove"

\* C20. Yaw is path-independent within one mouse drag: after a qualifying
\* press at p0 and any number of moves, the last of them to pk, the yaw is
\* yaw_at_press - (pk.x - p0.x) * rotateSensitivity, whatever coordinates
\* were visited in between; back at the starting x the yaw is the yaw of the
\* press.
C20_YawPathIndependent ==
    IsDrag(hist)
        => /\ yaw = pressed.yaw - (previousMousePosition.x - pressed.x) * rotateSensitivity
           /\ previousMousePosition.x = pressed.x => yaw = pressed.yaw

\* a drag of three moves has ended off the x of its press, with the yaw
\* turned accordingly
C20_Witness ==
    /\ IsDrag(hist)
    /\ Len(hist) = 4
    /\ calls = <<"lookAt", "change">>
    /\ previousMousePosition.x # pressed.x
    /\ yaw # pressed.yaw

=============================================================================
